---- MODULE Spec2Model ----
(***************************************************************************)
(* State-machine model of src/app/page.tsx: the Page component's state and *)
(* refs, the preview loop (requestAnimationFrame), the recording session   *)
(* (MediaRecorder, its events and the auto-stop timer) and the UI events   *)
(* that drive them.                                                         *)
(*                                                                         *)
(* Time is in milliseconds, as the timestamps handed to the refresh        *)
(* callback and the delay handed to setTimeout are.  Object URLs, refresh  *)
(* request ids and recorders are numbered from 1; 0 stands for null.       *)
(* The files chosen are images the browser can decode: every pending load  *)
(* ends in the load event.                                                  *)
(***************************************************************************)
EXTENDS Integers, Sequences, FiniteSets, TLC

VARIABLES
    now,           \* the clock: performance time in ms
    imageUrl,      \* useState imageUrl (0 = null)
    imgState,      \* the <img> element: "none", "loading", "loaded"
    aspect,        \* useState aspect, a string as a sequence of characters
    canvasW,       \* canvasRef.current.width
    canvasH,       \* canvasRef.current.height
    durationSec,   \* useState durationSec
    isRecording,   \* useState isRecording
    downloadUrl,   \* useState downloadUrl (0 = null)
    artifact,      \* the Blob registered under downloadUrl
    urlCount,      \* object URLs created so far (none is ever revoked)
    recorderRef,   \* recorderRef.current (0 = null)
    recs,          \* the MediaRecorder objects created so far
    chunksRef,     \* chunksRef.current
    startTimeRef,  \* startTimeRef.current
    animRef,       \* animRef.current (0 = null)
    rafPending,    \* refresh callbacks requested and neither run nor cancelled
    timers,        \* pending setTimeout callbacks
    sess,          \* history: the latest recording session
    uploads,       \* history: the number of files chosen so far
    lastStart,     \* history: the start request, or the stale timer, this
                   \* state results from, if any
    watch,         \* history: whether the behaviour records which timers a
                   \* manual stop left stale (TimerSpec does, Spec does not)
    painted,       \* the 2D context and the frame drawFrame painted last
                   \* (FrameSpec)
    wrapped        \* a call of wrapText and the lines it emitted (WrapSpec)

vars == <<now, imageUrl, imgState, aspect, canvasW, canvasH, durationSec,
          isRecording, downloadUrl, artifact, urlCount, recorderRef, recs,
          chunksRef, startTimeRef, animRef, rafPending, timers, sess,
          uploads, lastStart, watch, painted, wrapped>>

\* ------------------------------------------------------------------ bounds
TickMs == 30000
MaxTime == 90000
MaxSessions == 2
MaxUploads == 2
MaxFrames == 2

\* Values the duration input delivers (Number(e.target.value)).
DurationInputs == {0, 60}

\* ------------------------------------------------------- pure functions
Aspect916 == <<"9", ":", "1", "6">>
Aspect45 == <<"4", ":", "5">>
Aspects == {Aspect916, Aspect45}

DefaultAspect == Aspect916
DefaultDuration == 60
DefaultMaxWidth == 540

DigitValue(c) ==
    CASE c = "0" -> 0 [] c = "1" -> 1 [] c = "2" -> 2 [] c = "3" -> 3
      [] c = "4" -> 4 [] c = "5" -> 5 [] c = "6" -> 6 [] c = "7" -> 7
      [] c = "8" -> 8 [] c = "9" -> 9

\* Number(s) for a string of decimal digits.
RECURSIVE ToNumber(_)
ToNumber(s) ==
    IF s = <<>> THEN 0
    ELSE 10 * ToNumber(SubSeq(s, 1, Len(s) - 1)) + DigitValue(s[Len(s)])

\* s.split(":") for a string holding one colon.
ColonAt(s) == CHOOSE i \in 1..Len(s) : s[i] = ":"

parseAspect(a) ==
    LET k == ColonAt(a)
    IN [w |-> ToNumber(SubSeq(a, 1, k - 1)),
        h |-> ToNumber(SubSeq(a, k + 1, Len(a)))]

\* Math.round(n / d) for d > 0: floor(n/d + 1/2).
RoundDiv(n, d) == (2 * n + d) \div (2 * d)

constrainSizeMultiplying(a, maxWidth) ==
    LET p == parseAspect(a)
    IN [width |-> maxWidth, height |-> RoundDiv(maxWidth * p.w, p.h)]

\* width / ratio = width / (w / h) = width * h / w.
constrainSize(a, maxWidth) ==
    LET p == parseAspect(a)
    IN [width |-> maxWidth, height |-> RoundDiv(maxWidth * p.h, p.w)]

\* ------------------------------------------------------------- helpers
Max(a, b) == IF a >= b THEN a ELSE b
Min(a, b) == IF a <= b THEN a ELSE b

NoBlob == [from |-> 0, data |-> <<>>]

\* The history of a session: the duration it was started with, when it
\* started (while it records), what ended the recording and after how long,
\* and the frames painted while its encoder was recording.
NoSession == [rec |-> 0, dur |-> 0, startedAt |-> 0, cause |-> "none",
              ranMs |-> 0, captured |-> <<>>]

RecIds == 1..Len(recs)

\* Nothing was painted; wrapText was not called.
NoFrame == [drawn |-> FALSE]
NoWrap == [called |-> FALSE]

\* The smallest request id that is not pending.
FreshRaf(pending) ==
    CHOOSE i \in 1..(Cardinality(pending) + 1) :
        /\ i \notin pending
        /\ \A j \in 1..(i - 1) : j \in pending

RECURSIVE Concat(_)
Concat(blobs) ==
    IF blobs = <<>> THEN <<>> ELSE Head(blobs) \o Concat(Tail(blobs))

TypeOK ==
    /\ now \in 0..(MaxTime + TickMs)
    /\ imgState \in {"none", "loading", "loaded"}
    /\ aspect \in Aspects
    /\ isRecording \in BOOLEAN
    /\ recorderRef \in 0..Len(recs)
    /\ animRef \in Nat

PageInit ==
    /\ now = TickMs
    /\ imageUrl = 0
    /\ imgState = "none"
    /\ aspect = DefaultAspect
    /\ canvasW = constrainSize(DefaultAspect, DefaultMaxWidth).width
    /\ canvasH = constrainSize(DefaultAspect, DefaultMaxWidth).height
    /\ durationSec = DefaultDuration
    /\ isRecording = FALSE
    /\ downloadUrl = 0
    /\ artifact = NoBlob
    /\ urlCount = 0
    /\ recorderRef = 0
    /\ recs = <<>>
    /\ chunksRef = <<>>
    /\ startTimeRef = 0
    /\ animRef = 0
    /\ rafPending = {}
    /\ timers = {}
    /\ sess = NoSession
    /\ uploads = 0
    /\ lastStart = "none"

Init == PageInit /\ watch = FALSE /\ painted = NoFrame /\ wrapped = NoWrap


\* ------------------------------------------------------------ operations

\* drawFrame(now): the frame painted at refresh timestamp ts with the start
\* instant start; the canvas capture stream hands it to every active encoder.
drawFrame(ts, start) == [elapsedMs |-> ts - start]

startPreviewNoCancel ==
    /\ startTimeRef' = 0
    /\ animRef' = FreshRaf(rafPending)
    /\ rafPending' = rafPending \cup {FreshRaf(rafPending)}

\* startPreview, past its guard: cancel the pending callback, reset the
\* start instant, request a new callback.
startPreview ==
    LET kept == IF animRef # 0 THEN rafPending \ {animRef} ELSE rafPending
        id == FreshRaf(kept)
    IN /\ startTimeRef' = 0
       /\ animRef' = id
       /\ rafPending' = kept \cup {id}

\* stopPreview.
stopPreview ==
    /\ rafPending' = (IF animRef # 0 THEN rafPending \ {animRef} ELSE rafPending)
    /\ animRef' = 0

\* recorder.stop() on recorder r: an inactive recorder ignores it (or throws
\* InvalidStateError, which no caller here catches); an active one becomes
\* inactive at once and queues the task that fires dataavailable and stop.
RecorderStop(r) ==
    IF recs[r].state = "recording"
    THEN [recs EXCEPT ![r].state = "inactive", ![r].stopQueued = TRUE]
    ELSE recs

\* History: what ended the recording of the latest session, and when.
Ended(r, why) ==
    IF r = sess.rec /\ recs[r].state = "recording"
    THEN [sess EXCEPT !.cause = why, !.ranMs = now - sess.startedAt,
                      !.startedAt = 0]
    ELSE sess

\* The file input's onChange -> handleFile; the render that follows points
\* the <img> at the new URL, whose load is then pending.
HandleFile ==
    /\ uploads < MaxUploads
    /\ uploads' = uploads + 1
    /\ urlCount' = urlCount + 1
    /\ imageUrl' = urlCount + 1
    /\ downloadUrl' = 0
    /\ artifact' = NoBlob
    /\ imgState' = "loading"
    /\ lastStart' = "none"
    /\ UNCHANGED <<watch, painted, wrapped, sess, now, aspect, canvasW, canvasH, durationSec, isRecording,
                   recorderRef, recs, chunksRef, startTimeRef, animRef,
                   rafPending, timers>>

\* The <img>'s load event: onLoad={() => startPreview()}.
ImageLoad ==
    /\ imgState = "loading"
    /\ imgState' = "loaded"
    /\ startPreview
    /\ lastStart' = (IF animRef \in rafPending THEN "restart" ELSE "preview")
    /\ UNCHANGED <<watch, painted, wrapped, uploads, sess, now, imageUrl, aspect, canvasW, canvasH, durationSec,
                   isRecording, downloadUrl, artifact, urlCount, recorderRef,
                   recs, chunksRef, timers>>

\* Setting canvas.width or canvas.height resets the 2D context: its
\* globalAlpha is 1 again.
Resized(p) ==
    IF p.drawn THEN [p EXCEPT !.globalAlpha = [n |-> 1, d |-> 1]] ELSE p

\* The aspect select's onChange, the re-render (size = constrainSize(aspect,
\* 540)) and the effect that resizes the canvas.
SetAspect(a) ==
    /\ a # aspect
    /\ aspect' = a
    /\ canvasW' = constrainSize(a, DefaultMaxWidth).width
    /\ canvasH' = constrainSize(a, DefaultMaxWidth).height
    /\ painted' = Resized(painted)
    /\ lastStart' = "none"
    /\ UNCHANGED <<watch, wrapped, uploads, sess, now, imageUrl, imgState, durationSec, isRecording,
                   downloadUrl, artifact, urlCount, recorderRef, recs,
                   chunksRef, startTimeRef, animRef, rafPending, timers>>

\* The duration input's onChange.
SetDuration(d) ==
    /\ d # durationSec
    /\ durationSec' = d
    /\ lastStart' = "none"
    /\ UNCHANGED <<watch, painted, wrapped, uploads, sess, now, imageUrl, imgState, aspect, canvasW, canvasH,
                   isRecording, downloadUrl, artifact, urlCount, recorderRef,
                   recs, chunksRef, startTimeRef, animRef, rafPending, timers>>

\* The Preview button (disabled while !imageUrl || isRecording) -> startPreview.
ClickPreview ==
    /\ imageUrl # 0 /\ ~isRecording
    /\ imgState # "none"       \* canvasRef.current && imageRef.current
    /\ startPreview
    /\ lastStart' = (IF animRef \in rafPending THEN "restart" ELSE "preview")
    /\ UNCHANGED <<watch, painted, wrapped, uploads, sess, now, imageUrl, imgState, aspect, canvasW, canvasH,
                   durationSec, isRecording, downloadUrl, artifact, urlCount,
                   recorderRef, recs, chunksRef, timers>>

\* setTimeout's delay for the auto-stop: a negative delay is 0.
TimeoutDelayUnscaled(d) == Max(d, 0)
TimeoutDelay(d) == Max(d * 1000, 0)

\* startRecording, past its guard.  outcome is what the platform does: "ok",
\* "ctorThrows" (new MediaRecorder rejects the stream or the mime type: the
\* exception leaves startRecording before any assignment) or "startThrows"
\* (recorder.start() throws: the exception leaves it before setTimeout).
startRecording(outcome) ==
    IF outcome = "ctorThrows"
    THEN /\ lastStart' = "ctorThrew"
         /\ UNCHANGED <<isRecording, recorderRef, recs, chunksRef,
                        startTimeRef, animRef, rafPending, timers, sess>>
    ELSE LET r == Len(recs) + 1
             started == (outcome = "ok")
         IN /\ chunksRef' = <<>>
            /\ recorderRef' = r
            /\ isRecording' = TRUE
            /\ startPreview
            /\ recs' = Append(recs,
                   [state |-> IF started THEN "recording" ELSE "inactive",
                    buf |-> <<>>, stopQueued |-> FALSE])
            /\ timers' = (IF started
                          THEN timers \cup
                               {[rec |-> r, by |-> "none",
                                 due |-> now + TimeoutDelay(durationSec)]}
                          ELSE timers)
            /\ sess' = [NoSession EXCEPT !.rec = r, !.dur = durationSec,
                                         !.startedAt = now]
            /\ lastStart' = (IF started THEN "recording" ELSE "startThrew")

\* The Generate button may be clicked: it is shown while !isRecording and
\* disabled while !imageUrl, and then canvasRef.current and imageRef.current
\* are set.
CanStartRecording ==
    /\ imageUrl # 0 /\ ~isRecording
    /\ imgState # "none"
    /\ Len(recs) < MaxSessions
    /\ now + TimeoutDelay(durationSec) <= MaxTime

StartRecordingClearingArtifact(outcome) ==
    /\ CanStartRecording
    /\ startRecording(outcome)
    /\ downloadUrl' = 0
    /\ artifact' = NoBlob
    /\ UNCHANGED <<watch, painted, wrapped, uploads, now, imageUrl, imgState, aspect, canvasW, canvasH,
                   durationSec, urlCount>>

\* The Generate button -> startRecording.
StartRecording(outcome) ==
    /\ CanStartRecording
    /\ startRecording(outcome)
    /\ UNCHANGED <<watch, painted, wrapped, uploads, now, imageUrl, imgState, aspect, canvasW, canvasH,
                   durationSec, downloadUrl, artifact, urlCount>>

\* History: the pending timers once a manual stop has ended the recording
\* of recorder r, whose timer is thereby stale.
LeftStale(r) ==
    {IF tm.rec = r /\ recs[r].state = "recording"
     THEN [tm EXCEPT !.by = "manual"] ELSE tm : tm \in timers}

\* History: timer tm, left stale by a manual stop, fires while a later
\* session records.
StaleFire(tm) ==
    /\ watch /\ tm.by = "manual"
    /\ recorderRef # 0 /\ recs[recorderRef].state = "recording"

\* The Stop button (shown while isRecording) -> stopRecording.
StopRecording ==
    /\ isRecording
    /\ recs' = (IF recorderRef # 0 THEN RecorderStop(recorderRef) ELSE recs)
    /\ sess' = (IF recorderRef # 0 THEN Ended(recorderRef, "manual") ELSE sess)
    /\ timers' = (IF watch THEN LeftStale(recorderRef) ELSE timers)
    /\ lastStart' = "none"
    /\ UNCHANGED <<watch, painted, wrapped, uploads, now, imageUrl, imgState, aspect, canvasW, canvasH,
                   durationSec, isRecording, downloadUrl, artifact, urlCount,
                   recorderRef, chunksRef, startTimeRef, animRef, rafPending>>

TimerFireOnCurrent(tm) ==
    /\ tm \in timers
    /\ now >= tm.due
    /\ timers' = timers \ {tm}
    /\ recs' = (IF recorderRef # 0 THEN RecorderStop(recorderRef) ELSE recs)
    /\ sess' = (IF recorderRef # 0 THEN Ended(recorderRef, "timer") ELSE sess)
    /\ lastStart' = (IF StaleFire(tm) THEN "staleTimer" ELSE "none")
    /\ UNCHANGED <<watch, painted, wrapped, uploads, now, imageUrl, imgState, aspect, canvasW, canvasH,
                   durationSec, isRecording, downloadUrl, artifact, urlCount,
                   recorderRef, chunksRef, startTimeRef, animRef, rafPending>>

\* The auto-stop timer of the session that created recorder tm.rec fires:
\* recorder.stop() on the recorder the callback closed over.
TimerFire(tm) ==
    /\ tm \in timers
    /\ now >= tm.due
    /\ timers' = timers \ {tm}
    /\ recs' = RecorderStop(tm.rec)
    /\ sess' = Ended(tm.rec, "timer")
    /\ lastStart' = (IF StaleFire(tm) THEN "staleTimer" ELSE "none")
    /\ UNCHANGED <<watch, painted, wrapped, uploads, now, imageUrl, imgState, aspect, canvasW, canvasH,
                   durationSec, isRecording, downloadUrl, artifact, urlCount,
                   recorderRef, chunksRef, startTimeRef, animRef, rafPending>>

\* The encoder of recorder r fails while recording: the recorder becomes
\* inactive and fires error (no handler is attached), then dataavailable
\* and stop, as after stop().
EncoderError(r) ==
    /\ r \in RecIds
    /\ recs[r].state = "recording"
    /\ recs' = RecorderStop(r)
    /\ sess' = Ended(r, "error")
    /\ lastStart' = "none"
    /\ UNCHANGED <<watch, painted, wrapped, uploads, now, imageUrl, imgState, aspect, canvasW, canvasH,
                   durationSec, isRecording, downloadUrl, artifact, urlCount,
                   recorderRef, chunksRef, startTimeRef, animRef, rafPending,
                   timers>>

ondataavailableDropping(chunks, data) == chunks

\* recorder.ondataavailable: keep a chunk that is not empty.
ondataavailable(chunks, data) ==
    IF Len(data) > 0 THEN Append(chunks, data) ELSE chunks

\* The task queued by recorder r's stop: ondataavailable with the data
\* gathered (which the recorder then no longer holds), then onstop, which
\* publishes the artifact.
RecorderStopTask(r) ==
    /\ r \in RecIds
    /\ recs[r].stopQueued
    /\ LET chunks == ondataavailable(chunksRef, recs[r].buf)
       IN /\ chunksRef' = chunks
          /\ artifact' = [from |-> r, data |-> Concat(chunks)]
    /\ urlCount' = urlCount + 1
    /\ downloadUrl' = urlCount + 1
    /\ isRecording' = FALSE
    /\ stopPreview
    /\ recs' = [recs EXCEPT ![r].stopQueued = FALSE, ![r].buf = <<>>]
    /\ sess' = sess
    /\ lastStart' = "none"
    /\ UNCHANGED <<watch, painted, wrapped, uploads, now, imageUrl, imgState, aspect, canvasW, canvasH,
                   durationSec, recorderRef, startTimeRef, timers>>

\* The frame painted at this refresh reaches every recorder that is
\* recording.
Capture(frame) ==
    [r \in RecIds |->
        IF recs[r].state = "recording"
        THEN [recs[r] EXCEPT !.buf = Append(@, frame)]
        ELSE recs[r]]

\* A display refresh runs the pending callback id: loop(ts) latches the
\* start instant, paints, and requests the next callback.
RafTick(id) ==
    /\ id \in rafPending
    /\ \A r \in RecIds : recs[r].state = "recording" => Len(recs[r].buf) < MaxFrames
    /\ LET start == IF startTimeRef = 0 THEN now ELSE startTimeRef
       IN /\ startTimeRef' = start
          /\ recs' = Capture(drawFrame(now, start))
          /\ sess' = (IF sess.rec # 0 /\ recs[sess.rec].state = "recording"
                      THEN [sess EXCEPT !.captured = Append(@, drawFrame(now, start))]
                      ELSE sess)
    /\ animRef' = FreshRaf(rafPending \ {id})
    /\ rafPending' = (rafPending \ {id}) \cup {FreshRaf(rafPending \ {id})}
    /\ lastStart' = "none"
    /\ UNCHANGED <<watch, painted, wrapped, uploads, now, imageUrl, imgState, aspect, canvasW, canvasH,
                   durationSec, isRecording, downloadUrl, artifact, urlCount,
                   recorderRef, chunksRef, timers>>

\* Time passes.
Tick ==
    /\ now < MaxTime
    /\ now' = Min(now + TickMs, MaxTime)
    /\ lastStart' = "none"
    /\ UNCHANGED <<watch, painted, wrapped, uploads, sess, imageUrl, imgState, aspect, canvasW, canvasH, durationSec,
                   isRecording, downloadUrl, artifact, urlCount, recorderRef,
                   recs, chunksRef, startTimeRef, animRef, rafPending, timers>>

Next ==
    \/ HandleFile
    \/ ImageLoad
    \/ \E a \in Aspects : SetAspect(a)
    \/ \E d \in DurationInputs : SetDuration(d)
    \/ ClickPreview
    \/ \E o \in {"ok", "ctorThrows", "startThrows"} : StartRecording(o)
    \/ StopRecording
    \/ \E tm \in timers : TimerFire(tm)
    \/ \E r \in RecIds : EncoderError(r)
    \/ \E r \in RecIds : RecorderStopTask(r)
    \/ \E id \in rafPending : RafTick(id)
    \/ Tick

Spec == Init /\ [][Next]_vars

\* The same program, recording which timers a manual stop left stale.
TimerInit ==
    PageInit /\ watch = TRUE /\ painted = NoFrame /\ wrapped = NoWrap

TimerSpec == TimerInit /\ [][Next]_vars

\* The event loop runs every timer that is due and every queued task, and
\* time does not stop.
Fairness ==
    /\ WF_vars(Tick)
    /\ \A r \in 1..MaxSessions :
          /\ WF_vars(\E tm \in timers : tm.rec = r /\ TimerFire(tm))
          /\ WF_vars(RecorderStopTask(r))

LiveSpec == Spec /\ Fairness

\* ---------------------------------------------------- JavaScript numbers
\* A number is a fraction n/d in lowest terms with d >= 0; d = 0 gives the
\* IEEE values Infinity (1/0), -Infinity (-1/0) and NaN (0/0).  Rounding
\* errors of the binary representation are not modelled.
Abs(i) == IF i < 0 THEN -i ELSE i
Sign(i) == IF i > 0 THEN 1 ELSE IF i < 0 THEN -1 ELSE 0

RECURSIVE Gcd(_, _)
Gcd(a, b) == IF b = 0 THEN a ELSE Gcd(b, a % b)

Frac(n, d) ==
    IF d = 0 THEN [n |-> Sign(n), d |-> 0]
    ELSE LET g == Gcd(Abs(n), Abs(d))
         IN [n |-> Sign(d) * (n \div g), d |-> Abs(d) \div g]

Num(i) == [n |-> i, d |-> 1]
NaN == [n |-> 0, d |-> 0]
IsNaN(x) == x.n = 0 /\ x.d = 0
IsFinite(x) == x.d # 0

Plus(x, y) == Frac(x.n * y.d + y.n * x.d, x.d * y.d)
Minus(x, y) == Plus(x, [n |-> -y.n, d |-> y.d])
Times(x, y) == Frac(x.n * y.n, x.d * y.d)
Over(x, y) == Frac(x.n * y.d, x.d * y.n)

\* x < y and x <= y: false when either is NaN.
Less(x, y) ==
    /\ ~IsNaN(x) /\ ~IsNaN(y)
    /\ IF x.d = 0 /\ y.d = 0 THEN x.n < y.n ELSE x.n * y.d < y.n * x.d
Leq(x, y) ==
    /\ ~IsNaN(x) /\ ~IsNaN(y)
    /\ IF x.d = 0 /\ y.d = 0 THEN x.n <= y.n ELSE x.n * y.d <= y.n * x.d

\* Math.min, Math.max: NaN when either argument is NaN.
MathMin(x, y) ==
    IF IsNaN(x) \/ IsNaN(y) THEN NaN ELSE IF Less(y, x) THEN y ELSE x
MathMax(x, y) ==
    IF IsNaN(x) \/ IsNaN(y) THEN NaN ELSE IF Less(x, y) THEN y ELSE x

\* Math.round: floor(x + 1/2); Infinity and NaN are returned as they are.
MathRound(x) == IF x.d = 0 THEN x ELSE Num(RoundDiv(x.n, x.d))

\* ------------------------------------------------------------- drawFrame
\* const elapsed = (now - startTimeRef.current) / 1000, from milliseconds.
elapsed(ms) == Frac(ms, 1000)

\* const t = Math.min(elapsed / durationSec, 1).
tOf(el, dur) == MathMin(Over(el, Num(dur)), Num(1))

\* const zoom = 1.05 + t * 0.12.
zoom(t) == Plus(Frac(105, 100), Times(t, Frac(12, 100)))

\* Math.sin(t * Math.PI * 2) and Math.cos(t * Math.PI * 2) are rational
\* where t is a multiple of 1/4, and only there does the model compute them.
IsQuarter(t) == IsFinite(t) /\ t.d \in {1, 2, 4}
QuarterOf(t) == (t.n * (4 \div t.d)) % 4
SinTurn(t) == <<0, 1, 0, -1>>[QuarterOf(t) + 1]
CosTurn(t) == <<1, 0, -1, 0>>[QuarterOf(t) + 1]

panX(t) == Times(Num(SinTurn(t)), Frac(5, 100))
panY(t) == Times(Num(CosTurn(t)), Frac(4, 100))

\* const scale = Math.max(cw / iw, ch / ih) * zoom.
scale(cw, ch, iw, ih, z) == Times(MathMax(Frac(cw, iw), Frac(ch, ih)), z)

\* The rectangle of ctx.drawImage(img, dx, dy, drawW, drawH).
NoRect == [known |-> FALSE, dx |-> Num(0), dy |-> Num(0),
           drawW |-> Num(0), drawH |-> Num(0)]

imageRect(cw, ch, iw, ih, t) ==
    IF ~IsQuarter(t) THEN NoRect
    ELSE LET sc == scale(cw, ch, iw, ih, zoom(t))
             drawW == Times(Num(iw), sc)
             drawH == Times(Num(ih), sc)
             centerX == Plus(Frac(cw, 2), Times(panX(t), Num(cw)))
             centerY == Plus(Frac(ch, 2), Times(panY(t), Num(ch)))
         IN [known |-> TRUE,
             dx |-> MathRound(Minus(centerX, Over(drawW, Num(2)))),
             dy |-> MathRound(Minus(centerY, Over(drawH, Num(2)))),
             drawW |-> drawW, drawH |-> drawH]

\* const ease = (x) => 1 - Math.pow(1 - x, 3).
ease(x) ==
    LET y == Minus(Num(1), x) IN Minus(Num(1), Times(y, Times(y, y)))

headAlphaOverFour(el, t) ==
    IF Less(t, Frac(5, 100))
    THEN ease(MathMin(Over(el, Num(4)), Num(1)))
    ELSE Num(1)

\* const headAlpha = t < 0.05 ? ease(Math.min(elapsed / 2, 1)) : 1.
headAlpha(el, t) ==
    IF Less(t, Frac(5, 100))
    THEN ease(MathMin(Over(el, Num(2)), Num(1)))
    ELSE Num(1)

\* The bullet points.
points == <<"point 1", "point 2", "point 3">>

bulletAlphaEveryTwo(el, i) ==
    MathMin(MathMax(Over(Minus(el, Num(4 + i * 2)), Frac(15, 10)), Num(0)),
            Num(1))

\* points.forEach((p, i) => ...): appearAt = 4 + i * 3 and
\* alpha = Math.min(Math.max((elapsed - appearAt) / 1.5, 0), 1).
bulletAlpha(el, i) ==
    MathMin(MathMax(Over(Minus(el, Num(4 + i * 3)), Frac(15, 10)), Num(0)),
            Num(1))

\* const ctaAlpha = Math.min(Math.max((elapsed - 12) / 1.5, 0), 1).
ctaAlpha(el) ==
    MathMin(MathMax(Over(Minus(el, Num(12)), Frac(15, 10)), Num(0)), Num(1))

\* ctx.globalAlpha = v: a value that is not a finite number in [0,1] is
\* ignored.
SetGlobalAlpha(cur, v) ==
    IF IsFinite(v) /\ Leq(Num(0), v) /\ Leq(v, Num(1)) THEN v ELSE cur

restoreAlphaSkipped(cur) == cur

\* ctx.globalAlpha = 1.
restoreAlpha(cur) == SetGlobalAlpha(cur, Num(1))

\* The bullet items from index i on, painted with global alpha a on entry:
\* the alpha each is painted at, and the alpha left behind.
RECURSIVE DrawPoints(_, _, _)
DrawPoints(a, i, el) ==
    IF i >= Len(points) THEN [at |-> <<>>, after |-> a]
    ELSE LET ai == SetGlobalAlpha(a, bulletAlpha(el, i))
             rest == DrawPoints(restoreAlpha(ai), i + 1, el)
         IN [at |-> <<ai>> \o rest.at, after |-> rest.after]

\* Values of durationSec a loop can run with, natural sizes of the image
\* and elapsed times (ms) of refreshes.
FrameDurations == {-1, 0, 5, 30, 60}
ImageSizes == {[w |-> 540, h |-> 960], [w |-> 1920, h |-> 1080],
               [w |-> 600, h |-> 1500]}
ElapsedInputs ==
    {250 * k : k \in 0..24} \cup
    {7000, 7750, 8500, 10000, 10750, 11500, 12000, 12750, 13500, 15000,
     30000, 45000, 60000, 61000}

NotDrawn == [elapsedMs |-> 0, cw |-> 0, ch |-> 0, t |-> Num(0), zoom |-> Num(0), rect |-> NoRect,
             badge |-> Num(0), head |-> Num(0), bullets |-> <<>>,
             cta |-> Num(0), ctaDrawn |-> FALSE]

\* A fresh context has globalAlpha 1.
FrameInit ==
    /\ PageInit /\ watch = FALSE /\ wrapped = NoWrap
    /\ painted \in {[drawn |-> FALSE, dur |-> d, img |-> im,
                     globalAlpha |-> Num(1), frame |-> NotDrawn] :
                        d \in FrameDurations, im \in ImageSizes}

\* drawFrame at a refresh e ms after the start instant: what is painted, with
\* the global alpha each overlay is painted at.
DrawFrame(e) ==
    /\ painted' =
         LET el == elapsed(e)
             t == tOf(el, painted.dur)
             a0 == painted.globalAlpha
             aHead == SetGlobalAlpha(a0, headAlpha(el, t))
             pts == DrawPoints(restoreAlpha(aHead), 0, el)
             cta == ctaAlpha(el)
             ctaDrawn == Less(Num(0), cta)
             aCta == SetGlobalAlpha(pts.after, cta)
         IN [painted EXCEPT
               !.drawn = TRUE,
               !.globalAlpha = IF ctaDrawn THEN restoreAlpha(aCta) ELSE pts.after,
               !.frame = [elapsedMs |-> e, cw |-> canvasW, ch |-> canvasH,
                          t |-> t, zoom |-> zoom(t),
                          rect |-> imageRect(canvasW, canvasH, painted.img.w,
                                             painted.img.h, t),
                          badge |-> a0, head |-> aHead, bullets |-> pts.at,
                          cta |-> IF ctaDrawn THEN aCta ELSE Num(0),
                          ctaDrawn |-> ctaDrawn]]
    /\ UNCHANGED <<now, imageUrl, imgState, aspect, canvasW, canvasH,
                   durationSec, isRecording, downloadUrl, artifact, urlCount,
                   recorderRef, recs, chunksRef, startTimeRef, animRef,
                   rafPending, timers, sess, uploads, lastStart, watch,
                   wrapped>>

FrameNext ==
    \/ \E e \in ElapsedInputs : DrawFrame(e)
    \/ \E a \in Aspects : SetAspect(a)

\* drawFrame applied, refresh after refresh, on either canvas size.
FrameSpec == FrameInit /\ [][FrameNext]_vars

\* -------------------------------------------------------------- wrapText
\* Strings are sequences of characters.  ctx.measureText(s).width: the sum
\* of the advances of the characters of s, given the advance of a glyph
\* and of a space.
RECURSIVE measureText(_, _)
measureText(str, m) ==
    IF str = <<>> THEN 0
    ELSE (IF Head(str) = " " THEN m.space ELSE m.glyph)
         + measureText(Tail(str), m)

HasSpace(str) == \E i \in 1..Len(str) : str[i] = " "
FirstSpace(str) ==
    CHOOSE i \in 1..Len(str) :
        str[i] = " " /\ \A j \in 1..(i - 1) : str[j] # " "

RECURSIVE SplitDroppingEmpty(_)
SplitDroppingEmpty(str) ==
    IF str = <<>> THEN <<>>
    ELSE IF ~HasSpace(str) THEN <<str>>
    ELSE (IF FirstSpace(str) = 1 THEN <<>>
          ELSE <<SubSeq(str, 1, FirstSpace(str) - 1)>>)
         \o SplitDroppingEmpty(SubSeq(str, FirstSpace(str) + 1, Len(str)))

\* text.split(" "): the pieces between the spaces, empty pieces included;
\* the empty string gives one empty piece.
RECURSIVE Split(_)
Split(str) ==
    IF ~HasSpace(str) THEN <<str>>
    ELSE <<SubSeq(str, 1, FirstSpace(str) - 1)>>
         \o Split(SubSeq(str, FirstSpace(str) + 1, Len(str)))

\* The for loop of wrapText from word n on (n counts from 1 here), with the
\* line built so far and the lines handed to fillText so far.
RECURSIVE WrapFrom(_, _, _, _, _, _)
WrapFrom(words, n, line, lines, maxWidth, m) ==
    IF n > Len(words) THEN Append(lines, line)
    ELSE LET testLine == line \o words[n] \o <<" ">>
         IN IF measureText(testLine, m) > maxWidth /\ n > 1
            THEN WrapFrom(words, n + 1, words[n] \o <<" ">>,
                          Append(lines, line), maxWidth, m)
            ELSE WrapFrom(words, n + 1, testLine, lines, maxWidth, m)

wrapTextUnbroken(text, maxWidth, m) == <<text \o <<" ">>>>

\* wrapText: the lines it hands to fillText, in order.
wrapText(text, maxWidth, m) == WrapFrom(Split(text), 1, <<>>, <<>>, maxWidth, m)

MaxTextLen == 5
MaxWidthInput == 6

RECURSIVE Texts(_)
Texts(len) ==
    IF len = 0 THEN {<<>>}
    ELSE Texts(len - 1) \cup
         {Append(str, c) : str \in Texts(len - 1), c \in {"a", " "}}

\* Measures: each is monotone (no character has a negative advance).
Measures == {[glyph |-> g, space |-> sp] : g \in {1, 2}, sp \in {0, 1}}

WrapInit ==
    /\ PageInit /\ watch = FALSE /\ painted = NoFrame
    /\ wrapped \in {[called |-> FALSE, text |-> tx, maxWidth |-> mw,
                     measure |-> m, lines |-> <<>>] :
                        tx \in Texts(MaxTextLen), mw \in 0..MaxWidthInput,
                        m \in Measures}

\* A call of wrapText.
WrapText ==
    /\ ~wrapped.called
    /\ wrapped' = [wrapped EXCEPT
                     !.called = TRUE,
                     !.lines = wrapText(wrapped.text, wrapped.maxWidth,
                                        wrapped.measure)]
    /\ UNCHANGED <<now, imageUrl, imgState, aspect, canvasW, canvasH,
                   durationSec, isRecording, downloadUrl, artifact, urlCount,
                   recorderRef, recs, chunksRef, startTimeRef, animRef,
                   rafPending, timers, sess, uploads, lastStart, watch,
                   painted>>

WrapSpec == WrapInit /\ [][WrapText]_vars

\* ---------------------------------------------------------------- claims

\* The duration input's min and max.
MinDuration == 5
MaxDuration == 60

\* The session as the page shows it: the encoder is recording; the stop was
\* requested and its task is queued; the artifact of the latest session is
\* published.
Recording ==
    isRecording /\ recorderRef # 0 /\ recs[recorderRef].state = "recording"
Finalizing ==
    isRecording /\ recorderRef # 0 /\ recs[recorderRef].stopQueued
Ready ==
    ~isRecording /\ recorderRef # 0 /\ artifact.from = recorderRef

\* What the render reads: the state a caller can observe.
View == <<imageUrl, aspect, durationSec, isRecording, downloadUrl>>

\* A start request that went past the guard and failed.
FailedStart == StartRecording("ctorThrows") \/ StartRecording("startThrows")

\* The auto-stop timer ended the recording no sooner than the configured
\* duration after the start.
C1_NotEarly == sess.cause = "timer" => sess.ranMs >= sess.dur * 1000

\* Recording is left into Finalizing, Finalizing into Ready.
C1_Order ==
    /\ Recording /\ ~Recording' => Finalizing'
    /\ Finalizing /\ ~Finalizing' => Ready' /\ downloadUrl' # 0

\* C1: a session that was started reaches Finalizing and then Ready with no
\* caller action (the timer and the queued task alone carry it there), it
\* leaves Recording only into Finalizing and Finalizing only into Ready, and
\* when the auto-stop timer ended the recording, at least the configured
\* duration had elapsed since the start.
C1_AutoStop ==
    /\ []C1_NotEarly
    /\ [][C1_Order]_vars
    /\ (Recording ~> Finalizing)
    /\ (Finalizing ~> Ready)

\* C1 (witness): a session with a duration in [5,60] was ended by its timer
\* and its artifact, holding frames, is published.
C1_Witness ==
    /\ Ready /\ downloadUrl # 0
    /\ sess.cause = "timer"
    /\ sess.dur \in MinDuration..MaxDuration
    /\ Len(artifact.data) > 0

\* stopRecording ended the recording at an elapsed time below the
\* configured duration.
StoppedEarly == sess.cause = "manual" /\ sess.ranMs < sess.dur * 1000

\* The artifact of such a session is the frames captured, none later than
\* the stop.
C2_Exact ==
    Ready /\ StoppedEarly =>
        /\ artifact.data = sess.captured
        /\ \A i \in 1..Len(artifact.data) : artifact.data[i].elapsedMs <= sess.ranMs

\* No frame is captured once the recording has ended.
C2_Frozen ==
    sess.cause # "none" /\ sess'.rec = sess.rec => sess'.captured = sess.captured

\* C2: after stopRecording ended the recording before the configured
\* duration had elapsed, the session reaches Ready, and the artifact then
\* published holds exactly the frames painted while the encoder recorded,
\* none of them later than the elapsed time at the stop.
C2_ManualStop ==
    /\ []C2_Exact
    /\ [][C2_Frozen]_vars
    /\ ((Finalizing /\ StoppedEarly) ~> (Ready /\ StoppedEarly /\ downloadUrl # 0))

\* C2 (witness): a session stopped by hand before its duration is Ready with
\* an artifact that holds frames, some frame painted after the start.
C2_Witness ==
    /\ Ready /\ StoppedEarly /\ downloadUrl # 0
    /\ sess.ranMs > 0
    /\ Len(artifact.data) = MaxFrames
    /\ artifact.data[Len(artifact.data)].elapsedMs > 0

\* C3: a start request with a duration outside [5,60] is rejected: no state
\* that results from a start request that was let through has such a
\* duration.
C3_OutOfRangeRejected ==
    lastStart \in {"recording", "startThrew"} =>
        durationSec \in MinDuration..MaxDuration

\* C4: no preview and no recording is started while the image is not loaded.
C4_UnloadedRejected ==
    lastStart \in {"preview", "restart", "recording", "startThrew"} =>
        imgState = "loaded"

\* C5: a start that fails at the encoder leaves the session in a state that
\* differs from the idle one it was in, that does not report Recording, and
\* publishes no artifact.
C5_FailureSurfaced ==
    [][FailedStart =>
          /\ View' # View
          /\ ~isRecording'
          /\ downloadUrl' = downloadUrl]_vars

\* C6: a failed start leaves the published artifact as it was.
C6_PriorArtifactKept ==
    [][FailedStart => downloadUrl' = downloadUrl /\ artifact' = artifact]_vars

\* C6 (witness): a start has just failed while an artifact was published.
C6_Witness ==
    /\ lastStart \in {"ctorThrew", "startThrew"}
    /\ downloadUrl # 0 /\ Len(artifact.data) > 0

\* C7: no artifact is published from a session whose encoder reported an
\* error.
C7_ErrorDiscards ==
    downloadUrl # 0 /\ artifact.from = sess.rec => sess.cause # "error"

\* C8: at most one refresh callback is pending, and it is the one animRef
\* holds.
C8_OnePending ==
    /\ Cardinality(rafPending) <= 1
    /\ rafPending \subseteq {animRef}

\* C8 (witness): startPreview has just run while a callback was pending, and
\* one callback is pending.
C8_Witness == lastStart = "restart" /\ Cardinality(rafPending) = 1

\* The elapsed times of the frames captured do not decrease.
C9_FramesOrdered ==
    \A i, j \in 1..Len(sess.captured) :
        i <= j => sess.captured[i].elapsedMs <= sess.captured[j].elapsedMs

\* C9: while a session is Recording the start instant, once latched, is not
\* changed, and the elapsed times of the frames handed to the encoder do not
\* decrease.
C9_StartInstantKept ==
    /\ []C9_FramesOrdered
    /\ [][Recording /\ Recording' /\ startTimeRef # 0
            => startTimeRef' = startTimeRef]_vars

\* C10: the canvas keeps its size from the start of a recording session to
\* its transition to Ready.
C10_FrameSizeKept ==
    [][isRecording => canvasW' = canvasW /\ canvasH' = canvasH]_vars

\* Object URLs created and not revoked: the source never calls
\* URL.revokeObjectURL, so every URL handleFile created for a source image
\* and every URL onstop created for an artifact is still registered.
ImageUrlsUnreleased == uploads
ArtifactUrlsUnreleased == urlCount - uploads

\* C11: at most one source-image object URL and at most one artifact object
\* URL are created and not revoked, however many uploads and recordings
\* there were.
C11_HandlesReleased ==
    /\ ImageUrlsUnreleased <= 1
    /\ ArtifactUrlsUnreleased <= 1

\* C12: the canvas has the size constrainSize gives for the aspect chosen:
\* 540 x 960 for "9:16" and 540 x 675 for "4:5".
C12_ConstrainSize ==
    /\ canvasW = 540
    /\ aspect = Aspect916 => canvasH = 960
    /\ aspect = Aspect45 => canvasH = 675
    /\ \A a \in Aspects :
          constrainSize(a, canvasW).height * parseAspect(a).w
              = canvasW * parseAspect(a).h

\* C12 (witness): "4:5" was chosen and the canvas was resized for it.
C12_Witness == aspect = Aspect45 /\ canvasW = 540 /\ canvasH = 675

\* A timer that fires for a recorder that no longer records changes nothing
\* but the set of pending timers.
C14_Inert ==
    \A tm \in timers :
        tm \notin timers' /\ recs[tm.rec].state # "recording" =>
            /\ recs' = recs /\ sess' = sess /\ chunksRef' = chunksRef
            /\ View' = View /\ artifact' = artifact
            /\ recorderRef' = recorderRef /\ startTimeRef' = startTimeRef
            /\ rafPending' = rafPending /\ timers' = timers \ {tm}

\* C14: the auto-stop timer of a session that was stopped manually changes
\* nothing when it fires, and a session is ended by a timer only after its
\* own full duration, whatever timers of earlier sessions were pending.
C14_StaleTimer ==
    /\ [][C14_Inert]_vars
    /\ [](sess.cause = "timer" => sess.ranMs >= sess.dur * 1000)

\* C14 (witness): the timer of a session that was stopped manually has just
\* fired while a later session, whose own timer is pending, is recording.
C14_Witness ==
    /\ lastStart = "staleTimer"
    /\ Recording
    /\ \E tm \in timers : tm.rec = recorderRef

\* The frame painted last, and whether its loop runs with a duration the
\* input's min and max allow.
Frame == painted.frame
ValidDuration == painted.dur \in MinDuration..MaxDuration

\* C13: the rectangle the image is drawn in contains the whole canvas:
\* dx <= 0, dy <= 0, dx + drawW >= width and dy + drawH >= height, for t in
\* [0,1] (stated where t is a multiple of 1/4).
C13_FrameCovered ==
    painted.drawn /\ ValidDuration /\ Frame.rect.known =>
        LET r == Frame.rect
        IN /\ Leq(r.dx, Num(0))
           /\ Leq(r.dy, Num(0))
           /\ Leq(Num(Frame.cw), Plus(r.dx, r.drawW))
           /\ Leq(Num(Frame.ch), Plus(r.dy, r.drawH))

\* C15: in every frame painted t lies in [0,1] and zoom in [1.05, 1.17], for
\* every duration a loop can run with and every elapsed time >= 0.
C15_ProgressInRange ==
    painted.drawn =>
        /\ Leq(Num(0), Frame.t) /\ Leq(Frame.t, Num(1))
        /\ Leq(Frac(105, 100), Frame.zoom) /\ Leq(Frame.zoom, Frac(117, 100))

\* A line that holds one word (possibly empty) and the space wrapText
\* appends to it; the word of such a line.
SingleWord(line) ==
    /\ Len(line) >= 1 /\ line[Len(line)] = " "
    /\ ~HasSpace(SubSeq(line, 1, Len(line) - 1))
WordOf(line) == SubSeq(line, 1, Len(line) - 1)
Fits(str) == measureText(str, wrapped.measure) <= wrapped.maxWidth

\* C16 (as stated): no line emitted is wider than maxWidth, except a line
\* of a single word which is itself wider than maxWidth.
C16_LinesFit ==
    wrapped.called =>
        \A i \in 1..Len(wrapped.lines) :
            LET line == wrapped.lines[i]
            IN Fits(line) \/ (SingleWord(line) /\ ~Fits(WordOf(line)))

\* C16 (amended): no line emitted is wider than maxWidth, except a line
\* that holds a single word and the trailing space wrapText appends to it.
C16_LinesFitButSingleWord ==
    wrapped.called =>
        \A i \in 1..Len(wrapped.lines) :
            Fits(wrapped.lines[i]) \/ SingleWord(wrapped.lines[i])

\* C16 (witness): the text was broken into lines, and the first line holds
\* two words.
C16_Witness ==
    /\ wrapped.called /\ Len(wrapped.lines) >= 2
    /\ ~SingleWord(wrapped.lines[1]) /\ Fits(wrapped.lines[1])
    /\ wrapped.measure.space > 0 /\ wrapped.maxWidth > 0

\* C17 (as stated): for the empty text exactly one line is emitted, the
\* empty string.
C17_EmptyTextEmptyLine ==
    wrapped.called /\ wrapped.text = <<>> => wrapped.lines = << <<>> >>

\* C17 (amended): for the empty text exactly one line is emitted, and it
\* holds a single space.
C17_EmptyTextOneLine ==
    wrapped.called /\ wrapped.text = <<>> => wrapped.lines = << <<" ">> >>

\* C17 (witness): wrapText was called on the empty text and emitted one
\* line.
C17_Witness ==
    wrapped.called /\ wrapped.text = <<>> /\ Len(wrapped.lines) = 1

\* The headline's opacity is 0 at elapsed time 0 and 1 from 2 s on.
C18_Ends ==
    painted.drawn /\ ValidDuration =>
        /\ Frame.elapsedMs = 0 => Frame.head = Num(0)
        /\ Frame.elapsedMs >= 2000 => Frame.head = Num(1)

\* Of two frames of a loop, the later one paints the headline no fainter.
C18_Rising ==
    /\ painted.drawn /\ painted'.drawn /\ ValidDuration
    /\ painted'.frame.elapsedMs >= Frame.elapsedMs
    => Leq(Frame.head, painted'.frame.head)

\* C18: for every duration in [5,60] the headline's opacity is 0 at elapsed
\* time 0, 1 at every elapsed time >= 2 s, and does not decrease as the
\* elapsed time grows.
C18_HeadlineFade ==
    /\ []C18_Ends
    /\ [][C18_Rising]_vars

\* C18 (witness): a frame painted during the first 2 s shows the headline
\* partly faded in.
C18_Witness ==
    /\ painted.drawn /\ ValidDuration
    /\ Frame.elapsedMs > 0 /\ Frame.elapsedMs < 2000
    /\ Less(Num(0), Frame.head) /\ Less(Frame.head, Num(1))

\* C19: the badge is painted with global alpha 1 in every frame, and every
\* drawFrame call leaves the global alpha at 1.
C19_BadgeOpaque ==
    painted.drawn =>
        /\ Frame.badge = Num(1)
        /\ painted.globalAlpha = Num(1)

\* C19 (witness): a frame whose headline was faded in, whose second bullet
\* is partly visible and whose third is invisible, with the badge at 1.
C19_Witness ==
    /\ painted.drawn /\ Frame.badge = Num(1)
    /\ Frame.head = Num(1)
    /\ Less(Num(0), Frame.bullets[2]) /\ Less(Frame.bullets[2], Num(1))
    /\ Frame.bullets[3] = Num(0) /\ ~Frame.ctaDrawn

\* C20: bullet item i is painted with opacity 0 before 4 + 3i seconds, with
\* opacity 1 from 4 + 3i + 1.5 seconds on, and with an opacity in [0,1]
\* always.
C20_BulletStagger ==
    painted.drawn =>
        \A i \in 0..(Len(points) - 1) :
            LET a == Frame.bullets[i + 1]
            IN /\ Frame.elapsedMs < (4 + 3 * i) * 1000 => a = Num(0)
               /\ Frame.elapsedMs >= (4 + 3 * i) * 1000 + 1500 => a = Num(1)
               /\ Leq(Num(0), a) /\ Leq(a, Num(1))

\* C20 (witness): at 10.75 s the first two bullets are opaque and the third
\* is half visible.
C20_Witness ==
    /\ painted.drawn /\ Frame.elapsedMs = 10750
    /\ Frame.bullets = <<Num(1), Num(1), Frac(1, 2)>>

====
